---- MODULE Spec2Model ----
(***************************************************************************)
(* Boneh-Franklin identity based encryption (bfibe): the engine            *)
(* (src/bfibe/src/bfibe.c), its hash primitives (hash.c), the security     *)
(* profile (security.c), the facade (api.c) and the serialisation          *)
(* (export.c).                                                             *)
(*                                                                         *)
(* Representation.  The digest functions and the random source are ideal:  *)
(* a byte is a set of atoms and XOR is the symmetric difference, so that   *)
(* a ^ a = 0 and distinct digests never cancel.  An atom is a 4-tuple      *)
(*   <<"H", fn, input, i>>   byte i of digest fn over the byte string input*)
(*   <<"rho", k, <<>>, i>>   byte i of the k-th draw of RAND_bytes         *)
(*   <<"m", k, <<>>, i>>     byte i of plaintext k                         *)
(*   <<"junk", 0, <<>>, i>>  byte i of a buffer the caller did not set     *)
(*   <<"GT", 0, theta, i>>   byte i of element_to_bytes of a GT element    *)
(* The pairing groups have prime order r; an element of G1 is k*x*G for a  *)
(* number k mod r and a formal scalar x (One, or a hash_to_range value), an*)
(* element of G2 is k*pt and e(k1*x*G, k2*pt) = e(G, pt)^(k1*k2*x).        *)
(* One model byte stands for OctetsPerUnit octets of a digest.             *)
(***************************************************************************)
EXTENDS Integers, Sequences, FiniteSets, TLC

VARIABLES
    objs,      \* the BFPublicParameters records handed out so far
    live,      \* allocation ids initialised and not yet cleared or freed
    nid,       \* the last allocation id given out
    msg,       \* the BFMessage in flight (bf_encrypt's result), or NoMsg
    last       \* what the last operation returned to its caller

vars == <<objs, live, nid, msg, last>>

(***************************** bounds ***************************************)
OctetsPerUnit == 16   \* octets of a digest that one model byte stands for
MaxLen == 2           \* longest plaintext, in model bytes
MaxParams == 3        \* Params records handed out in one run
NumCurves == 3        \* curve descriptors the Type-A generator may return
MaxGen == 2           \* generators P that element_random may return
MaxSystems == 2       \* calls of generate_system in one run
MaxRefresh == 2       \* calls of bf_generate_shard on a record set up before
MaxRand == 4          \* largest random number pbc_mpz_random draws from
MaxMsgs == 1          \* calls of bf_encrypt in one run
MaxCalls == 1         \* calls of decrypt_ibe in one run, the last decryption

(************************ security profile **********************************)
SHA_DIGEST_LENGTH == 20
SHA224_DIGEST_LENGTH == 28
SHA256_DIGEST_LENGTH == 32
SHA384_DIGEST_LENGTH == 48
SHA512_DIGEST_LENGTH == 64

Units(octets) == octets \div OctetsPerUnit

\* calloc'ed BFSecurityLevel
NoSecurity == [level |-> 0, n_p |-> 0, n_q |-> 0, hashlen |-> 0, hashfcn |-> "NULL"]

\* security.c:17-56.  level is a uint8_t; the level is stored before the switch.
setup_security(security, level) ==
    CASE level = 1 -> [ok |-> TRUE, security |->
              [level |-> 1, n_p |-> 512, n_q |-> 160,
               hashlen |-> Units(SHA_DIGEST_LENGTH), hashfcn |-> "SHA1"]]
      [] level = 2 -> [ok |-> TRUE, security |->
              [level |-> 2, n_p |-> 1024, n_q |-> 224,
               hashlen |-> Units(SHA224_DIGEST_LENGTH), hashfcn |-> "SHA224"]]
      [] level = 3 -> [ok |-> TRUE, security |->
              [level |-> 3, n_p |-> 1536, n_q |-> 256,
               hashlen |-> Units(SHA256_DIGEST_LENGTH), hashfcn |-> "SHA256"]]
      [] level = 4 -> [ok |-> TRUE, security |->
              [level |-> 4, n_p |-> 3840, n_q |-> 384,
               hashlen |-> Units(SHA384_DIGEST_LENGTH), hashfcn |-> "SHA384"]]
      [] level = 5 -> [ok |-> TRUE, security |->
              [level |-> 5, n_p |-> 7680, n_q |-> 512,
               hashlen |-> Units(SHA512_DIGEST_LENGTH), hashfcn |-> "SHA512"]]
      [] OTHER -> [ok |-> FALSE, security |-> [security EXCEPT !.level = level]]

(************************* bytes and digests ********************************)
\* the one element of a set of one element; Only({e(x) : x \in {v}}) is e(v)
\* with v worked out once
Only(S) == CHOOSE x \in S : TRUE
MinOf(a, b) == IF a < b THEN a ELSE b

Zeros(n) == [i \in 1..n |-> {}]

XorByte(a, b) == (a \ b) \cup (b \ a)

\* the digest function the profile selected, applied to the byte string d
hashfcn(security, d) ==
    [i \in 1..security.hashlen |-> {<<"H", security.hashfcn, d, i>>}]

\* RAND_bytes(buf, n), draw number k
RAND_bytes(k, n) == [i \in 1..n |-> {<<"rho", k, <<>>, i>>}]

\* plaintext number k of n bytes
Plain(k, n) == [i \in 1..n |-> {<<"m", k, <<>>, i>>}]

\* a buffer of n bytes that the caller allocated and did not set
Junk(n) == [i \in 1..n |-> {<<"junk", 0, <<>>, i>>}]

\* memcpy(dst + off, src, n), byte strings indexed from 1
memcpy(dst, off, src, n) ==
    [i \in 1..Len(dst) |-> IF off < i /\ i <= off + n THEN src[i - off] ELSE dst[i]]

(************************* pairing provider *********************************)
One == <<>>

\* subgroup order r of the c-th curve descriptor: descriptors 1 and 2 share r,
\* descriptor 0 has an order of two digits in base 10 and in base 36
CurveOrder(c) == IF c = 0 THEN 37 ELSE IF c % 3 = 0 THEN 5 ELSE 3

\* pbc_param_init_a_gen(par, rbits, qbits), c-th outcome of the generator
\* (the descriptor holds the subgroup order r and the field it is over)
pbc_param_init_a_gen(rbits, qbits, c) == [r |-> CurveOrder(c), fld |-> c]

NoCurve == [r |-> 0, fld |-> 0]

\* a G1 element k*x*G and the identity
G1(k, x) == IF k = 0 THEN [k |-> 0, x |-> One] ELSE [k |-> k, x |-> x]
element_is0(e) == e.k = 0

\* element_mul_mpz(n, a, z) in G1 or G2 for a number z; r is the group order
element_mul_mpz(a, z, r) == [a EXCEPT !.k = (a.k * z) % r]

\* element_mul_mpz(n, a, l) in G1 for a hash_to_range value l
element_mul_sym(a, l) == G1(a.k, l)

\* element_add(n, a, b) in G1 or G2, both elements of the same group
element_add(a, b, r) == [a EXCEPT !.k = (a.k + b.k) % r]

\* element_from_hash(Q, md, hlen) in G2
element_from_hash(md) == [k |-> 1, pt |-> md]

\* a GT element e(G, pt)^(k*x) and the identity
GT(k, x, pt) == IF k = 0 THEN [k |-> 0, x |-> One, pt |-> <<>>]
                ELSE [k |-> k, x |-> x, pt |-> pt]

\* element_pairing(theta, a, b), a in G1 and b in G2
element_pairing(a, b, r) == GT((a.k * b.k) % r, a.x, b.pt)

\* element_pow_mpz(theta, theta, l) for a hash_to_range value l
element_pow_sym(theta, l) == GT(theta.k, l, theta.pt)

\* element_to_bytes(z, theta): element_length_in_bytes(theta) bytes
element_to_bytes(theta) == [i \in 1..2 |-> {<<"GT", 0, theta, i>>}]

(*************************** hash primitives ********************************)
\* hash.c:14-21
hash_to_point(params, input) ==
    element_from_hash(hashfcn(params.security, input))

\* hash.c:27-55.  v = a1 * 256^hlen + a2 with a1, a2 the two digests read as
\* big-endian numbers; the result v mod q is kept as a formal scalar.
hash_to_range(params, bytes, q) ==
    LET hlen == params.security.hashlen
        h0 == Zeros(hlen)
        h1 == hashfcn(params.security, h0 \o bytes)
        h2 == hashfcn(params.security, h1 \o bytes)
    IN  <<"mod", <<h1, h2>>, q>>

RECURSIVE hash_to_bytes_loop(_, _, _, _, _, _)
\* hash.c:79-96, one call per round of the while loop
hash_to_bytes_loop(result, security, h, K, remaining, copied) ==
    IF remaining = 0 THEN result
    ELSE LET hlen == security.hashlen
             hh == hashfcn(security, h)
             r == hashfcn(security, hh \o K)
         IN  IF remaining > hlen
             THEN hash_to_bytes_loop(memcpy(result, copied, r, hlen), security,
                                     hh, K, remaining - hlen, copied + hlen)
             ELSE hash_to_bytes_loop(memcpy(result, 0, r, remaining), security,
                                     hh, K, 0, copied + remaining)

\* hash.c:61-97.  result is the buffer as the caller passed it.
hash_to_bytes(result, params, outlen, input) ==
    hash_to_bytes_loop(result, params.security,
                       Zeros(params.security.hashlen),
                       hashfcn(params.security, input), outlen, 0)

(****************************** heap ****************************************)
\* hp = [live, nid]: element_init / mpz_init / calloc take the next id,
\* element_clear / mpz_clear / free drop it from live.  Id 0 is "not initialised".
\* live holds <<id, kind>> for each allocation in use.
Alloc(hp, kind) == [live |-> hp.live \cup {<<hp.nid + 1, kind>>}, nid |-> hp.nid + 1]
Release(hp, id) == [hp EXCEPT !.live = {e \in @ : e[1] # id}]
Handle(hp, v) == [id |-> hp.nid, v |-> v]

NoG1 == [id |-> 0, v |-> G1(0, One)]
NoMpz == [id |-> 0, v |-> 0]
NoPar == [id |-> 0, v |-> NoCurve]

\* calloc(1, sizeof(BFPublicParameters)) with the struct's id, bfibe.h:34-52
calloc_params(self) ==
    [self |-> self, security |-> NoSecurity, pbc_par |-> NoPar, pairing |-> NoPar,
     P |-> NoG1, P_pub |-> NoG1, P_pub_precomp |-> NoG1, q |-> NoMpz]

\* the allocation ids a Params record holds
Owned(p) == {p.self, p.pbc_par.id, p.pairing.id, p.P.id, p.P_pub.id,
             p.P_pub_precomp.id, p.q.id} \ {0}

(**************************** IBE engine ************************************)
\* pbc_mpz_random(z, limit): a number below limit, from the random number u
pbc_mpz_random(u, limit) == u % limit

\* the mutant of bf_generate_shard that draws s from 2..q
bf_generate_shard_to_q(params, u, hp) ==
    LET s == pbc_mpz_random(u, params.q.v - 1) + 2
        r == params.pairing.v.r
        hp1 == Alloc(hp, "P_pub")
        P_pub == Handle(hp1, element_mul_mpz(params.P.v, s, r))
        hp2 == Alloc(hp1, "precomp")
    IN  [params |-> [params EXCEPT !.P_pub = P_pub,
                                   !.P_pub_precomp = Handle(hp2, P_pub.v)],
         s |-> s, hp |-> hp2]

\* bfibe.c:78-93.  u is the random number pbc_mpz_random draws from.
bf_generate_shard(params, u, hp) ==
    LET smax == params.q.v - 2
        s == pbc_mpz_random(u, smax) + 2
        r == params.pairing.v.r
        hp1 == Alloc(hp, "P_pub")     \* element_init_same_as(params->P_pub, params->P)
        P_pub == Handle(hp1, element_mul_mpz(params.P.v, s, r))
        hp2 == Alloc(hp1, "precomp")  \* pairing_pp_init(params->P_pub_precomp, ...)
        pp == Handle(hp2, P_pub.v)
    IN  [params |-> [params EXCEPT !.P_pub = P_pub, !.P_pub_precomp = pp],
         s |-> s, hp |-> hp2]

\* bfibe.c:61-65.  g: the points element_random returns in turn
RECURSIVE random_generator(_)
random_generator(g) ==
    IF element_is0(G1(Head(g), One)) THEN random_generator(Tail(g)) ELSE G1(Head(g), One)

\* bfibe.c:44-73.  c: the curve the generator returns, g: the draws of
\* element_random for P, u: the secret's random number.
bf_setup(params, security_level, c, g, u, hp) ==
    LET sec == setup_security(params.security, security_level)
    IN  IF ~sec.ok
        THEN [ok |-> FALSE, params |-> [params EXCEPT !.security = sec.security],
              s |-> 0, hp |-> hp]
        ELSE LET par == pbc_param_init_a_gen(sec.security.n_q, sec.security.n_p, c)
                 hp1 == Alloc(hp, "pbc_par")
                 hp2 == Alloc(hp1, "pairing")
                 hp3 == Alloc(hp2, "q")
                 hp4 == Alloc(hp3, "P")
                 p1 == [params EXCEPT !.security = sec.security,
                                      !.pbc_par = Handle(hp1, par),
                                      !.pairing = Handle(hp2, par),
                                      !.q = Handle(hp3, par.r),
                                      !.P = Handle(hp4, random_generator(g))]
                 sh == bf_generate_shard(p1, u, hp4)
             IN  [ok |-> TRUE, params |-> sh.params, s |-> sh.s, hp |-> sh.hp]

\* an identifier as the bytes of its string
IdBytes(identifier) == << {<<"id", 0, <<>>, identifier>>} >>

\* bfibe.c:98-101
bf_generate_public_key(params, identifier) ==
    hash_to_point(params, IdBytes(identifier))

\* bfibe.c:106-110
bf_generate_private_key(params, s, identifier) ==
    element_mul_mpz(hash_to_point(params, IdBytes(identifier)), s,
                    params.pairing.v.r)

NoBytes == [id |-> 0, v |-> <<>>]

\* bfibe.c:112-174.  k: the draw of RAND_bytes, rand_ok: whether it succeeds.
\* The result is NULL (ok = FALSE) or the message.
bf_encrypt(params, public_key, m, len, k, rand_ok, hp) ==
    LET hlen == params.security.hashlen
        r == params.pairing.v.r
        hp0 == Alloc(hp, "message")                     \* message = calloc(...)
        self == hp0.nid
        rho == RAND_bytes(k, hlen)
        t == hashfcn(params.security, SubSeq(m, 1, len))
        l == hash_to_range(params, rho \o t, params.q.v)
        hp1 == Alloc(hp0, "U")                    \* element_init_same_as(message->U, ...)
        U == Handle(hp1, element_mul_sym(params.P.v, l))
        theta == element_pow_sym(
                     element_pairing(params.P_pub_precomp.v, public_key, r), l)
        z == element_to_bytes(theta)
        hz == hashfcn(params.security, z)
        hp2 == Alloc(hp1, "V")                    \* message->V = calloc(hlen, 1)
        V == Handle(hp2, [i \in 1..hlen |-> XorByte(hz[i], rho[i])])
        hp3 == Alloc(hp2, "W")                    \* message->W = calloc(len, 1)
        mask == hash_to_bytes(Zeros(len), params, len, rho)
        W == Handle(hp3, [i \in 1..len |-> XorByte(mask[i], m[i])])
    IN  IF ~rand_ok
        THEN [ok |-> FALSE, hp |-> hp0,
              message |-> [self |-> 0, length |-> 0, U |-> NoG1,
                           V |-> NoBytes, W |-> NoBytes]]
        ELSE [ok |-> TRUE, hp |-> hp3,
              message |-> [self |-> self, length |-> len, U |-> U, V |-> V, W |-> W]]

\* bfibe.c:178-225, steps 1 to 8 and [l]P: the buffer after step 6 and lP.
\* output is the caller's buffer as passed in.
bf_decrypt_steps(output, params, private_key, message) ==
    LET hlen == params.security.hashlen
        r == params.pairing.v.r
        theta == element_pairing(message.U.v, private_key, r)
        z == element_to_bytes(theta)
        hz == hashfcn(params.security, z)
        w == [i \in 1..hlen |-> XorByte(hz[i], message.V.v[i])]
    IN  Only({
          LET out == [i \in 1..Len(output) |->
                         IF i <= message.length
                         THEN XorByte(mask[i], message.W.v[i]) ELSE output[i]]
              t == hashfcn(params.security, SubSeq(out, 1, message.length))
              l == hash_to_range(params, w \o t, params.q.v)
          IN  [output |-> out, lP |-> element_mul_sym(params.P.v, l)] :
          mask \in {hash_to_bytes(output, params, message.length, w)}})

\* memset(output, 0, n)
memset0(output, n) == [i \in 1..Len(output) |-> IF i <= n THEN {} ELSE output[i]]

\* the mutant of bf_decrypt that accepts without the check of step 9
bf_decrypt_unchecked(output, params, private_key, message) ==
    [retval |-> TRUE,
     output |-> bf_decrypt_steps(output, params, private_key, message).output]

\* the mutant of bf_decrypt that fails without the memset
bf_decrypt_unscrubbed(output, params, private_key, message) ==
    Only({[retval |-> message.U.v = st.lP, output |-> st.output] :
          st \in {bf_decrypt_steps(output, params, private_key, message)}})

\* the mutant of bf_decrypt whose step 9 compares the points' base only
bf_decrypt_base_only(output, params, private_key, message) ==
    Only({IF message.U.v.k # st.lP.k
          THEN [retval |-> FALSE, output |-> memset0(st.output, message.length)]
          ELSE [retval |-> TRUE, output |-> st.output] :
          st \in {bf_decrypt_steps(output, params, private_key, message)}})

\* bfibe.c:176-238
bf_decrypt(output, params, private_key, message) ==
    Only({IF message.U.v # st.lP
          THEN [retval |-> FALSE, output |-> memset0(st.output, message.length)]
          ELSE [retval |-> TRUE, output |-> st.output] :
          st \in {bf_decrypt_steps(output, params, private_key, message)}})

(*************************** text forms *************************************)
DigitChar == <<"0", "1", "2", "3", "4", "5", "6", "7", "8", "9", "a", "b", "c",
               "d", "e", "f", "g", "h", "i", "j", "k", "l", "m", "n", "o", "p",
               "q", "r", "s", "t", "u", "v", "w", "x", "y", "z">>

IsDigit(ch, base) == \E d \in 1..base : DigitChar[d] = ch
DigitVal(ch) == (CHOOSE d \in 1..36 : DigitChar[d] = ch) - 1

RECURSIVE ToDigits(_, _)
\* mpz_get_str / mpz_out_str / "%u": the digits of n in the base
ToDigits(n, base) ==
    IF n < base THEN <<DigitChar[n + 1]>>
    ELSE ToDigits(n \div base, base) \o <<DigitChar[(n % base) + 1]>>

RECURSIVE FromDigits(_, _, _)
\* mpz_set_str / mpz_inp_str / "%u": the leading digits of the text, from acc
FromDigits(text, base, acc) ==
    IF text = <<>> \/ ~IsDigit(Head(text), base) THEN acc
    ELSE FromDigits(Tail(text), base, acc * base + DigitVal(Head(text)))

\* element_snprint / "%B" of a point of G1: "O" or "[" coordinates "]"
element_snprint_G1(e) ==
    IF e.k = 0 THEN <<"O">> ELSE <<"[">> \o ToDigits(e.k, 10) \o <<"]">>

\* element_set_str(e, text, 10) on a point of G1: the characters read (0 when
\* the text is no point, and e is then what element_set0 left) and the point
element_set_str_G1(text) ==
    IF text # <<>> /\ Head(text) = "O" THEN [n |-> 1, v |-> G1(0, One)]
    ELSE IF Len(text) >= 3 /\ Head(text) = "[" /\ text[Len(text)] = "]"
              /\ \A i \in 2..(Len(text) - 1) : IsDigit(text[i], 10)
         THEN [n |-> Len(text),
               v |-> G1(FromDigits(SubSeq(text, 2, Len(text) - 1), 10, 0), One)]
         ELSE [n |-> 0, v |-> G1(0, One)]

\* element_snprint of a point of G2 (a private key)
element_snprint_G2(e) ==
    IF e.k = 0 THEN <<"O">> ELSE <<"[">> \o ToDigits(e.k, 10) \o <<",", e.pt, "]">>

\* element_set_str(e, text, 10) on a point of G2
element_set_str_G2(text) ==
    IF text # <<>> /\ Head(text) = "O" THEN [n |-> 1, v |-> [k |-> 0, pt |-> <<>>]]
    ELSE IF Len(text) >= 5 /\ Head(text) = "[" /\ text[Len(text)] = "]"
              /\ text[Len(text) - 2] = ","
              /\ \A i \in 2..(Len(text) - 3) : IsDigit(text[i], 10)
         THEN [n |-> Len(text),
               v |-> [k |-> FromDigits(SubSeq(text, 2, Len(text) - 3), 10, 0),
                      pt |-> text[Len(text) - 1]]]
         ELSE [n |-> 0, v |-> [k |-> 0, pt |-> <<>>]]

\* pbc_param_out_str and pbc_param_init_set_str on a Type-A descriptor
pbc_param_out_str(par) ==
    [type |-> "a", r |-> ToDigits(par.r, 10), fld |-> ToDigits(par.fld, 10)]
pbc_param_init_set_str(text) ==
    [r |-> FromDigits(text.r, 10, 0), fld |-> FromDigits(text.fld, 10, 0)]

MPZ_OUTPUT_BASE == 36

\* the mutant of bf_params_to_file that writes q in base 10
bf_params_to_file_base10(params) ==
    [security |-> ToDigits(params.security.level, 10),
     P |-> element_snprint_G1(params.P.v),
     P_pub |-> element_snprint_G1(params.P_pub.v),
     q |-> ToDigits(params.q.v, 10),
     par |-> pbc_param_out_str(params.pbc_par.v)]

\* export.c:16-22, the five fields in the order written
bf_params_to_file(params) ==
    [security |-> ToDigits(params.security.level, 10),
     P |-> element_snprint_G1(params.P.v),
     P_pub |-> element_snprint_G1(params.P_pub.v),
     q |-> ToDigits(params.q.v, MPZ_OUTPUT_BASE),
     par |-> pbc_param_out_str(params.pbc_par.v)]

\* export.c:24-94 on a text of the five fields.  setup_security's result is
\* not looked at; a point that fails to parse clears q, P and P_pub.
bf_params_from_file(in, params, hp) ==
    LET sec == setup_security(params.security, FromDigits(in.security, 10, 0) % 256)
        hp1 == Alloc(hp, "q")                   \* mpz_init(params->q)
        q == Handle(hp1, FromDigits(in.q, MPZ_OUTPUT_BASE, 0))
        hp2 == Alloc(hp1, "pbc_par")
        par == Handle(hp2, pbc_param_init_set_str(in.par))
        hp3 == Alloc(hp2, "pairing")
        pairing == Handle(hp3, par.v)
        hp4 == Alloc(hp3, "P")                  \* element_init_G1(params->P, ...)
        P == element_set_str_G1(in.P)
        hp5 == Alloc(hp4, "P_pub")              \* element_init_same_as(params->P_pub, ...)
        P_pub == element_set_str_G1(in.P_pub)
        hp6 == Alloc(hp5, "precomp")
        p1 == [params EXCEPT !.security = sec.security, !.q = q, !.pbc_par = par,
                             !.pairing = pairing, !.P = Handle(hp4, P.v),
                             !.P_pub = Handle(hp5, P_pub.v)]
    IN  IF P.n = 0 \/ P_pub.n = 0
        THEN [ok |-> FALSE, params |-> p1,
              hp |-> Release(Release(Release(hp5, q.id), hp4.nid), hp5.nid)]
        ELSE [ok |-> TRUE, hp |-> hp6,
              params |-> [p1 EXCEPT !.P_pub_precomp = Handle(hp6, P_pub.v)]]

(************************ ciphertext byte form *******************************)
\* a byte holding the number n, and the number a byte holds
NumByte(n) == IF n = 0 THEN {} ELSE {<<"n", n, <<>>, 0>>}
ByteNum(b) == IF \E a \in b : a[1] = "n" THEN (CHOOSE a \in b : a[1] = "n")[2] ELSE 0

\* element_to_bytes and element_from_bytes on a point of G1
element_to_bytes_G1(e) == [i \in 1..2 |-> {<<"G1", 0, e, i>>}]
element_from_bytes_G1(b) ==
    IF \E e \in {a[3] : a \in {x \in b[1] : x[1] = "G1"}} : b = element_to_bytes_G1(e)
    THEN (CHOOSE a \in b[1] : a[1] = "G1")[3]
    ELSE [k |-> 1, x |-> <<"bytes", b>>]

\* in[i] for a read of the caller's buffer, which may run past its end
ReadAt(in, i) == IF i <= Len(in) THEN in[i] ELSE {<<"oob", 0, <<>>, i>>}

\* the mutant of bf_message_to_bytes that writes W before V
bf_message_to_bytes_W_first(params, message) ==
    <<NumByte(message.length), NumByte(params.security.level)>>
    \o element_to_bytes_G1(message.U.v)
    \o [i \in 1..message.length |-> message.W.v[i]]
    \o [i \in 1..params.security.hashlen |-> message.V.v[i]]

\* export.c:157-181
bf_message_to_bytes(params, message) ==
    <<NumByte(message.length), NumByte(params.security.level)>>
    \o element_to_bytes_G1(message.U.v)
    \o [i \in 1..params.security.hashlen |-> message.V.v[i]]
    \o [i \in 1..message.length |-> message.W.v[i]]

\* the mutant of bf_message_from_bytes that compares the levels after it has
\* read U, V and W
bf_message_from_bytes_late(in, params, message, hp) ==
    LET length == ByteNum(ReadAt(in, 1))
        hlen == params.security.hashlen
        hp1 == Alloc(hp, "U")
        U == Handle(hp1, element_from_bytes_G1(<<ReadAt(in, 3), ReadAt(in, 4)>>))
        hp2 == Alloc(hp1, "V")
        V == Handle(hp2, [i \in 1..hlen |-> ReadAt(in, 4 + i)])
        hp3 == Alloc(hp2, "W")
        W == Handle(hp3, [i \in 1..length |-> ReadAt(in, 4 + hlen + i)])
    IN  [ok |-> ByteNum(ReadAt(in, 2)) = params.security.level, hp |-> hp3,
         message |-> [message EXCEPT !.length = length, !.U = U, !.V = V, !.W = W]]

\* export.c:183-209.  msg is the caller's BFMessage as it was before the call.
bf_message_from_bytes(in, params, message, hp) ==
    LET length == ByteNum(ReadAt(in, 1))
        level == ByteNum(ReadAt(in, 2))
        hlen == params.security.hashlen
        hp1 == Alloc(hp, "U")                  \* element_init_G1(msg->U, ...)
        U == Handle(hp1, element_from_bytes_G1(<<ReadAt(in, 3), ReadAt(in, 4)>>))
        hp2 == Alloc(hp1, "V")                 \* msg->V = malloc(hashlen)
        V == Handle(hp2, [i \in 1..hlen |-> ReadAt(in, 4 + i)])
        hp3 == Alloc(hp2, "W")                 \* msg->W = malloc(msg->length)
        W == Handle(hp3, [i \in 1..length |-> ReadAt(in, 4 + hlen + i)])
    IN  IF level # params.security.level
        THEN [ok |-> FALSE, hp |-> hp, message |-> [message EXCEPT !.length = length]]
        ELSE [ok |-> TRUE, hp |-> hp3,
              message |-> [message EXCEPT !.length = length, !.U = U, !.V = V, !.W = W]]

(******************************* facade *************************************)
\* api.c:64-69: the text, the holder that is never freed and the text's buffer
format_system_params(system, hp) ==
    LET hp1 == Alloc(hp, "holder")
        hp2 == Alloc(hp1, "text")
    IN  [text |-> bf_params_to_file(system), id |-> hp2.nid, hp |-> hp2]

\* api.c:71-75
parse_system_params(param_string, hp) ==
    LET hp1 == Alloc(hp, "params")
    IN  Only({[params |-> got.params, hp |-> got.hp] :
              got \in {bf_params_from_file(param_string, calloc_params(hp1.nid), hp1)}})

\* api.c:11-16
copy_params(params, hp) ==
    Only({Only({[params |-> res.params, hp |-> Release(res.hp, str.id)] :
                res \in {parse_system_params(str.text, str.hp)}}) :
          str \in {format_system_params(params, hp)}})

\* api.c:18-27.  security_level is an int, bf_setup takes a uint8_t.
generate_system(security_level, c, g, u, hp) ==
    LET hp1 == Alloc(hp, "params")
        hp2 == Alloc(hp1, "secret")
    IN  Only({[system |-> st.params, secret |-> Handle(hp2, st.s), hp |-> st.hp] :
              st \in {bf_setup(calloc_params(hp1.nid), security_level % 256,
                               c, g, u, hp2)}})

\* api.c:29-42
generate_shard(base_system, u, hp) ==
    Only({LET hp1 == Alloc(cp.hp, "secret")
              hp2 == Release(Release(hp1, cp.params.P_pub.id),
                             cp.params.P_pub_precomp.id)
          IN  Only({[system |-> sh.params, secret |-> Handle(hp1, sh.s),
                     hp |-> sh.hp] :
                    sh \in {bf_generate_shard(cp.params, u, hp2)}}) :
          cp \in {copy_params(base_system, hp)}})

\* the mutant of add_public that compares the levels only
add_public_level_only(params1, params2, jk, hp) ==
    IF params1.security.level # params2.security.level
    THEN [ok |-> FALSE, result |-> calloc_params(0), params1 |-> params1,
          params2 |-> params2, hp |-> hp]
    ELSE Only({[ok |-> TRUE, result |-> cp.params, params1 |-> params1,
                params2 |-> params2, hp |-> cp.hp] : cp \in {copy_params(params1, hp)}})

\* api.c:153-169.  The result is NULL (ok = FALSE) or the new record; params1
\* and params2 are the two inputs as the call leaves them.  jk is what
\* element_add yields when params2's point is not on the result's curve.
add_public(params1, params2, jk, hp) ==
    IF params1.security.level # params2.security.level \/ params1.q.v # params2.q.v
    THEN [ok |-> FALSE, result |-> calloc_params(0), params1 |-> params1,
          params2 |-> params2, hp |-> hp]
    ELSE Only({
           LET hp1 == Release(cp.hp, cp.params.P_pub_precomp.id)
               r == cp.params.pairing.v.r
               sum == IF params2.pairing.v = cp.params.pairing.v
                      THEN element_add(params1.P_pub.v, params2.P_pub.v, r)
                      ELSE G1(jk % r, One)
               hp2 == Alloc(hp1, "precomp")
           IN  [ok |-> TRUE, params1 |-> params1, params2 |-> params2, hp |-> hp2,
                result |-> [cp.params EXCEPT !.P_pub.v = sum,
                                             !.P_pub_precomp = Handle(hp2, sum)]] :
           cp \in {copy_params(params1, hp)}})

\* api.c:91-101
format_private_key(private_key) == element_snprint_G2(private_key)

\* api.c:103-109
parse_private_key(system, key_string) == element_set_str_G2(key_string).v

\* api.c:80-89
generate_private_key(system, secret, address) ==
    format_private_key(bf_generate_private_key(system, secret, address))

\* api.c:171-188
add_secret(system, secret1, secret2) ==
    LET s1 == parse_private_key(system, secret1)
        s2 == parse_private_key(system, secret2)
        secret_result == element_add(s1, s2, system.pairing.v.r)
    IN  format_private_key(secret_result)

\* api.c:134-151.  The result is NULL (ok = FALSE) or the buffer returned,
\* with *out_length; out0 is *out_length before the call.  retval is what
\* bf_decrypt returned inside, which the caller does not get.
decrypt_ibe(system, key, ciphertext, out0, hp) ==
    LET none == [self |-> 0, length |-> 0, U |-> NoG1, V |-> NoBytes, W |-> NoBytes]
    IN  Only({
          LET hp1 == Alloc(got.hp, "plain")    \* calloc(msg.length, 1)
              dec == bf_decrypt(Zeros(got.message.length), system, key, got.message)
              hp2 == Release(Release(hp1, got.message.V.id), got.message.W.id)
          IN  IF ~got.ok
              THEN [ok |-> FALSE, bytes |-> <<>>, retval |-> FALSE,
                    out_length |-> out0, hp |-> got.hp]
              ELSE [ok |-> TRUE, bytes |-> dec.output, retval |-> dec.retval,
                    out_length |-> got.message.length, hp |-> hp2] :
          got \in {bf_message_from_bytes(ciphertext, system, none, hp)}})

\* api.c:114-132.  The result is the byte string returned with *out_length.
\* When bf_encrypt returned NULL, bf_message_to_bytes reads through the null
\* pointer: fault, and crash says whether the process stops there or goes on
\* with bytes that are no ciphertext.
encrypt_ibe(system, address, message, message_len, k, rand_ok, crash, hp) ==
    LET hp1 == Alloc(hp, "public_key")         \* element_init_G2(public_key, ...)
        pk == Handle(hp1, bf_generate_public_key(system, address))
    IN  Only({
          LET hp2 == Alloc(ct.hp, "bytes")     \* *out = malloc(output_size)
              hp3 == Release(Release(Release(Release(hp2,
                         ct.message.V.id), ct.message.W.id), ct.message.self), pk.id)
          IN  IF ~ct.ok
              THEN [ok |-> ~crash, fault |-> TRUE, hp |-> ct.hp, out_length |-> 0,
                    bytes |-> IF crash THEN <<>> ELSE Junk(1)]
              ELSE [ok |-> TRUE, fault |-> FALSE, hp |-> hp3,
                    out_length |-> Len(bf_message_to_bytes(system, ct.message)),
                    bytes |-> bf_message_to_bytes(system, ct.message)] :
          ct \in {bf_encrypt(system, pk.v, message, message_len, k, rand_ok, hp1)}})

(***************************** the machine **********************************)
Hp == [live |-> live, nid |-> nid]
NoMsg == [to |-> 0]
Ids == {"alice", "bob"}
LevelInputs == {0, 1, 2, 6, 257}

\* what element_random returns for P until it is not the identity
GenDraws(c) == {<<g0, g1>> : g0 \in 0..MinOf(MaxGen, CurveOrder(c) - 1),
                             g1 \in 1..MinOf(MaxGen, CurveOrder(c) - 1)}

\* a record whose setup ran to its end
Valid(o) == o.p.P.id # 0
Count(kind) == Cardinality({e \in live : e[2] = kind})
Systems == {i \in 1..Len(objs) : objs[i].kind = "system"}

\* objs[i] is [p: the record, s: the secret handed out with it, ms: the master
\* secret of the PKG it stands for, kind and from: how it was made, gen: the
\* calls of bf_generate_shard on it since]
Entry(p, s, ms, kind, from) ==
    [p |-> p, s |-> s, ms |-> ms, kind |-> kind, from |-> from, gen |-> 0]

Init ==
    /\ objs = <<>>
    /\ live = {}
    /\ nid = 0
    /\ msg = NoMsg
    /\ last = [op |-> "none"]

\* generate_system(level, &system, &secret)
GenerateSystem(level, c, g, u) ==
    /\ Len(objs) < MaxParams
    /\ Cardinality(Systems) < MaxSystems
    /\ g \in GenDraws(c)
    /\ \E res \in {generate_system(level, c, g, u, Hp)} :
           /\ objs' = Append(objs, Entry(res.system, res.secret, res.secret.v,
                                         "system", <<>>))
           /\ live' = res.hp.live
           /\ nid' = res.hp.nid
           /\ last' = [op |-> "generate_system", level |-> level,
                       ret |-> IF res.system.self # 0 THEN Len(objs) + 1 ELSE 0,
                       pre |-> Hp]
    /\ UNCHANGED msg

\* generate_shard(objs[i], &system, &secret)
GenerateShard(i, u) ==
    /\ Len(objs) < MaxParams
    /\ msg = NoMsg
    /\ Valid(objs[i])
    /\ \E res \in {generate_shard(objs[i].p, u, Hp)} :
           /\ objs' = Append(objs, Entry(res.system, res.secret, res.secret.v,
                                         "shard", <<i>>))
           /\ live' = res.hp.live
           /\ nid' = res.hp.nid
           /\ last' = [op |-> "generate_shard", a |-> i, ret |-> Len(objs) + 1,
                       pre |-> Hp]
    /\ UNCHANGED msg

\* add_public(objs[i], objs[j])
AddPublic(i, j, jk) ==
    /\ Len(objs) < MaxParams
    /\ msg = NoMsg
    /\ Valid(objs[i]) /\ Valid(objs[j])
    /\ jk \in (IF objs[i].p.pairing.v = objs[j].p.pairing.v THEN {0}
               ELSE 0..(objs[i].p.pairing.v.r - 1))
    /\ \E res \in {add_public(objs[i].p, objs[j].p, jk, Hp)} :
       LET old == [objs EXCEPT ![i].p = res.params1, ![j].p = res.params2]
       IN  /\ objs' = IF res.ok
                      THEN Append(old, Entry(res.result, NoMpz,
                                  (objs[i].ms + objs[j].ms) % objs[i].p.q.v,
                                  "sum", <<i, j>>))
                      ELSE old
           /\ live' = res.hp.live
           /\ nid' = res.hp.nid
           /\ last' = [op |-> "add_public", a |-> i, b |-> j,
                       ret |-> IF res.ok THEN Len(objs) + 1 ELSE 0,
                       pre |-> Hp, before |-> <<objs[i], objs[j]>>]
    /\ UNCHANGED msg

Next ==
    \/ \E level \in LevelInputs, c \in 1..NumCurves, u \in 0..MaxRand :
         \E g \in GenDraws(c) : GenerateSystem(level, c, g, u)
    \/ \E i \in 1..Len(objs), u \in 0..MaxRand : GenerateShard(i, u)
    \/ \E i \in 1..Len(objs), j \in 1..Len(objs), jk \in 0..MaxRand : AddPublic(i, j, jk)

Spec == Init /\ [][Next]_vars

(************************ the engine on one record ***************************)
\* bf_setup(&params, s, level) on a record of the caller's, as genibe and
\* generate_system call it; the record starts with nothing allocated
BfSetup(level, c, g, u) ==
    /\ objs = <<>>
    /\ g \in GenDraws(c)
    /\ \E res \in {bf_setup(calloc_params(0), level, c, g, u, Hp)} :
           /\ objs' = <<Entry(res.params, [id |-> 0, v |-> res.s], res.s,
                              "system", <<>>)>>
           /\ live' = res.hp.live
           /\ nid' = res.hp.nid
           /\ last' = [op |-> "bf_setup", level |-> level, ret |-> res.ok, pre |-> Hp]
    /\ UNCHANGED msg

\* bf_generate_shard(&params, s) on the record set up before
RefreshShard(u) ==
    /\ Len(objs) = 1
    /\ Valid(objs[1])
    /\ objs[1].gen < MaxRefresh
    /\ \E res \in {bf_generate_shard(objs[1].p, u, Hp)} :
           /\ objs' = [objs EXCEPT ![1].p = res.params, ![1].s.v = res.s,
                                   ![1].ms = res.s, ![1].gen = @ + 1]
           /\ live' = res.hp.live
           /\ nid' = res.hp.nid
           /\ last' = [op |-> "bf_generate_shard", ret |-> TRUE, pre |-> Hp]
    /\ UNCHANGED msg

NextEngine ==
    \/ \E level \in 0..6, c \in 1..NumCurves, u \in 0..MaxRand :
         \E g \in GenDraws(c) : BfSetup(level, c, g, u)
    \/ \E u \in 0..MaxRand : RefreshShard(u)

SpecEngine == Init /\ [][NextEngine]_vars

(********************** encryption and decryption ****************************)
\* the state after generate_system(level, ...) for a level of the profile
InitIBE ==
    \E level \in 1..5, u \in {0, MaxRand} :
      \E res \in {generate_system(level, NumCurves, <<0, 1>>, u, [live |-> {}, nid |-> 0])} :
        /\ objs = <<Entry(res.system, res.secret, res.secret.v, "system", <<>>)>>
        /\ live = res.hp.live
        /\ nid = res.hp.nid
        /\ msg = NoMsg
        /\ last = [op |-> "generate_system", level |-> level, ret |-> 1,
                   pre |-> [live |-> {}, nid |-> 0]]

\* bf_encrypt(objs[i], public key of id, m, len) for a plaintext of len bytes
Encrypt(i, id, len, rand_ok) ==
    /\ msg = NoMsg
    /\ Count("message") < MaxMsgs
    /\ Valid(objs[i])
    /\ \E res \in {bf_encrypt(objs[i].p, bf_generate_public_key(objs[i].p, id),
                              Plain(1, len), len, Count("message") + 1, rand_ok, Hp)} :
           /\ msg' = IF res.ok
                     THEN [to |-> i, id |-> id, plain |-> Plain(1, len),
                           m |-> res.message,
                           rho |-> RAND_bytes(Count("message") + 1,
                                              objs[i].p.security.hashlen)]
                     ELSE NoMsg
           /\ live' = res.hp.live
           /\ nid' = res.hp.nid
           /\ last' = [op |-> "bf_encrypt", ret |-> res.ok, pre |-> Hp]
    /\ UNCHANGED objs

\* the private key the PKG of objs[i] extracts for the identifier
KeyOf(i, id) == bf_generate_private_key(objs[i].p, objs[i].ms, id)

\* bf_decrypt(output, objs[msg.to], private key of id, msg) into a buffer the
\* caller zeroed or left as allocated
Decrypt(id, zeroed) ==
    /\ msg # NoMsg
    /\ Count("plain") < MaxCalls
    /\ LET buf0 == IF zeroed THEN Zeros(msg.m.length) ELSE Junk(msg.m.length)
       IN  \E res \in {bf_decrypt(buf0, objs[msg.to].p, KeyOf(msg.to, id), msg.m)} :
             last' = [op |-> "bf_decrypt", id |-> id, buf0 |-> buf0,
                      retval |-> res.retval, output |-> res.output]
    /\ UNCHANGED <<objs, live, nid, msg>>

\* decrypt_ibe(objs[msg.to], parsed private key of id, bytes of msg, len, &n)
DecryptIbe(id) ==
    /\ msg # NoMsg
    /\ Count("plain") < MaxCalls
    /\ LET system == objs[msg.to].p
           key == parse_private_key(system,
                      generate_private_key(system, objs[msg.to].ms, id))
           ciphertext == bf_message_to_bytes(system, msg.m)
       IN  \E res \in {decrypt_ibe(system, key, ciphertext, -1, Hp)} :
             /\ live' = res.hp.live
             /\ nid' = res.hp.nid
             /\ last' = [op |-> "decrypt_ibe", id |-> id, ret |-> res.ok,
                         bytes |-> res.bytes, out_length |-> res.out_length,
                         retval |-> res.retval, pre |-> Hp]
    /\ UNCHANGED <<objs, msg>>

NextIBE ==
    \/ \E i \in 1..Len(objs), u \in {0, MaxRand} : GenerateShard(i, u)
    \/ \E i \in 1..Len(objs), j \in 1..Len(objs) : AddPublic(i, j, 0)
    \/ \E i \in 1..Len(objs), id \in Ids, len \in 1..MaxLen, rand_ok \in BOOLEAN :
         Encrypt(i, id, len, rand_ok)
    \/ \E id \in Ids, zeroed \in BOOLEAN : Decrypt(id, zeroed)
    \/ \E id \in Ids : DecryptIbe(id)

SpecIBE == InitIBE /\ [][NextIBE]_vars

(******************************* claims *************************************)
\* the decryption just done used the key of the identifier encrypted to
OwnKey == last.id = msg.id
Decrypted == last.op = "bf_decrypt"
HLen == objs[msg.to].p.security.hashlen

\* C1: with (params, s) from setup (or a shard), decrypting what bf_encrypt
\* made for an identifier with that identifier's private key succeeds and
\* returns the plaintext.
C1_RoundTrip ==
    (Decrypted /\ objs[msg.to].kind # "sum" /\ OwnKey)
        => (last.retval /\ last.output = msg.plain)

\* C2: decrypting with the private key of another identifier, extracted under
\* the same (params, s), returns false and not the plaintext.
C2_WrongIdentifierFails ==
    ((Decrypted \/ last.op = "decrypt_ibe") /\ objs[msg.to].kind # "sum" /\ ~OwnKey)
        => (~last.retval /\ (IF Decrypted THEN last.output ELSE last.bytes) # msg.plain)

C2_Witness ==
    /\ Decrypted /\ objs[msg.to].kind = "system" /\ ~OwnKey /\ ~last.retval
    /\ msg.m.length > HLen

\* C3: bf_decrypt returns false with every byte of the output zero, or true
\* with the plaintext in the output.
C3_ScrubbedOrPlain ==
    Decrypted =>
        IF last.retval THEN last.output = msg.plain
        ELSE \A i \in 1..msg.m.length : last.output[i] = {}

C3_Witness ==
    /\ Decrypted /\ ~last.retval /\ msg.m.length > HLen
    /\ last.buf0 = Junk(msg.m.length)
    /\ last.output = Zeros(msg.m.length)

\* C4: decrypt_ibe reports a failure (returns NULL) whenever bf_decrypt's
\* validation failed inside it.
C4_FailureReported ==
    (last.op = "decrypt_ibe" /\ ~last.retval) => ~last.ret

\* C7: for pC = add_public(pA, pB) of two shards of one system and
\* sC = (sA + sB) mod q, decrypting under pC with extract(pC, sC, id) what
\* was encrypted under pC for id returns the plaintext.
C7_JointRoundTrip ==
    (Decrypted /\ objs[msg.to].kind = "sum" /\ OwnKey)
        => (last.retval /\ last.output = msg.plain)

(*********************** sums of secrets (api.c) *****************************)
BIGINT_STRING_BASE == 36

\* api.c:44-47
format_system_secret(secret) == ToDigits(secret, BIGINT_STRING_BASE)

\* one system, and three secrets of it in text form
InitSecret ==
    \E c \in 1..NumCurves, u \in 0..MaxRand :
      \E res \in {generate_system(1, c, <<1>>, u, [live |-> {}, nid |-> 0])} :
        \E s2 \in 0..(res.system.q.v - 1), s3 \in 0..(res.system.q.v - 1) :
          /\ objs = <<Entry(res.system, res.secret, res.secret.v, "system", <<>>)>>
          /\ live = res.hp.live
          /\ nid = res.hp.nid
          /\ msg = NoMsg
          /\ last = [op |-> "secrets", s |-> <<res.secret.v, s2, s3>>]

\* add_secret(system, a, b) and add_secret(system, b, a), then the two ways
\* of adding the third
AddSecret ==
    /\ last.op = "secrets"
    /\ LET p == objs[1].p
           t == [i \in 1..3 |-> format_system_secret(last.s[i])]
       IN  \E ab \in {add_secret(p, t[1], t[2])}, bc \in {add_secret(p, t[2], t[3])} :
             last' = [op |-> "add_secret", s |-> last.s,
                      ab |-> ab,
                      ba |-> add_secret(p, t[2], t[1]),
                      ab_c |-> add_secret(p, ab, t[3]),
                      a_bc |-> add_secret(p, t[1], bc)]
    /\ UNCHANGED <<objs, live, nid, msg>>

NextSecret == AddSecret

SpecSecret == InitSecret /\ [][NextSecret]_vars

\* C5: generate_system with a level outside 1..5 hands out no system and no
\* secret (and leaves nothing allocated).
C5_InvalidLevelHandsOutNothing ==
    (last.op = "generate_system" /\ last.level \notin 1..5)
        => (last.ret = 0 /\ live = last.pre.live)

\* C5, the engine's half: bf_setup with a level outside 1..5 returns false
\* with no curve, pairing, q or P made.
C5_SetupRejects ==
    (last.op = "bf_setup" /\ last.level \notin 1..5)
        => (~last.ret /\ live = last.pre.live /\ ~Valid(objs[1])
            /\ objs[1].p.pbc_par.id = 0 /\ objs[1].p.pairing.id = 0)

\* C6: after a setup that succeeded, and after any later bf_generate_shard on
\* the record, s is in [2, q-1], P is not the identity, P_pub = [s]P and q is
\* the order r of the curve.
C6_SetupPostcondition ==
    (Len(objs) = 1 /\ Valid(objs[1])) =>
        LET o == objs[1]
            r == o.p.pbc_par.v.r
        IN  /\ o.s.v \in 2..(o.p.q.v - 1)
            /\ o.p.P.v.k % r # 0
            /\ o.p.P_pub.v.k = (o.s.v * o.p.P.v.k) % r
            /\ o.p.P_pub.v.x = One /\ o.p.P.v.x = One
            /\ o.p.q.v = r

C6_Witness ==
    /\ Len(objs) = 1 /\ Valid(objs[1]) /\ last.op = "bf_generate_shard"
    /\ objs[1].gen = MaxRefresh
    /\ objs[1].s.v = objs[1].p.q.v - 1 /\ objs[1].s.v > 2

\* the two records add_public was called with, as they were before the call
ParamsA == last.before[1].p
ParamsB == last.before[2].p
Added == last.op = "add_public"

\* C8: add_public fails when the inputs differ in level or in q: it returns
\* NULL, no result record exists and nothing stays allocated.
C8_MismatchFails ==
    (Added /\ (ParamsA.security.level # ParamsB.security.level
               \/ ParamsA.q.v # ParamsB.q.v))
        => (last.ret = 0 /\ live = last.pre.live /\ nid = last.pre.nid)

C8_Witness ==
    /\ Added /\ last.ret = 0
    /\ ParamsA.security.level = ParamsB.security.level /\ ParamsA.q.v # ParamsB.q.v

\* C9: a successful add_public returns a record of its own, with the level,
\* curve, q and P of the first input, P_pub = P_pub_A + P_pub_B and the
\* precomputation of that P_pub; both inputs are as they were and share no
\* element with the result.
C9_Frame ==
    LET C == objs[last.ret].p
        before == {e[1] : e \in last.pre.live}
    IN  /\ C.security = ParamsA.security
        /\ C.pbc_par.v = ParamsA.pbc_par.v /\ C.pairing.v = ParamsA.pairing.v
        /\ C.q.v = ParamsA.q.v
        /\ C.P.v = ParamsA.P.v
        /\ C.P_pub_precomp.v = C.P_pub.v
        /\ objs[last.a] = last.before[1] /\ objs[last.b] = last.before[2]
        /\ Cardinality(Owned(C)) = 7
        /\ Owned(C) \cap (Owned(ParamsA) \cup Owned(ParamsB)) = {}
        /\ Owned(C) \cap before = {}
        /\ Owned(C) \subseteq {e[1] : e \in live}

C9_Sum ==
    LET C == objs[last.ret].p
    IN  /\ C.P_pub.v.k = (ParamsA.P_pub.v.k + ParamsB.P_pub.v.k) % ParamsA.pairing.v.r
        /\ C.P_pub.v.x = One

C9_FreshSum == (Added /\ last.ret # 0) => (C9_Frame /\ C9_Sum)

\* C9, for inputs on one curve
C9_OnOneCurve ==
    (Added /\ last.ret # 0)
        => (C9_Frame /\ (ParamsA.pbc_par.v = ParamsB.pbc_par.v => C9_Sum))

\* C10: add_secret(system, a, b) on the texts of two secrets is the text of
\* (a + b) mod q, whichever the order of a and b and however three secrets
\* are grouped.
C10_SumModQ ==
    last.op = "add_secret" =>
        /\ last.ab = format_system_secret((last.s[1] + last.s[2]) % objs[1].p.q.v)
        /\ last.ab = last.ba
        /\ last.ab_c = last.a_bc

(*********************** the wire and the text forms *************************)
NoMessage == [self |-> 0, length |-> 0, U |-> NoG1, V |-> NoBytes, W |-> NoBytes]

\* a sender's system and a receiver's system, made by generate_system
InitCodec ==
    \E a \in 1..5, b \in 1..2, u \in {MaxRand} :
      \E r1 \in {generate_system(a, 0, <<2>>, u, [live |-> {}, nid |-> 0])} :
        \E r2 \in {generate_system(b, NumCurves, <<0, 1>>, u, r1.hp)} :
          /\ objs = <<Entry(r1.system, r1.secret, r1.secret.v, "system", <<>>),
                      Entry(r2.system, r2.secret, r2.secret.v, "system", <<>>)>>
          /\ live = r2.hp.live
          /\ nid = r2.hp.nid
          /\ msg = NoMsg
          /\ last = [op |-> "generate_system", level |-> b, ret |-> 2, pre |-> r1.hp]

\* encrypt_ibe(objs[i], id, m, len, &n)
EncryptIbe(i, id, len, rand_ok, crash) ==
    /\ Valid(objs[i])
    /\ msg = NoMsg
    /\ Count("bytes") + Count("public_key") < MaxMsgs
    /\ rand_ok => ~crash
    /\ \E res \in {encrypt_ibe(objs[i].p, id, Plain(1, len), len,
                               Count("message") + Count("bytes") + 1,
                               rand_ok, crash, Hp)} :
           /\ live' = res.hp.live
           /\ nid' = res.hp.nid
           /\ last' = [op |-> "encrypt_ibe", rand_ok |-> rand_ok, ret |-> res.ok,
                       fault |-> res.fault, bytes |-> res.bytes,
                       out_length |-> res.out_length, pre |-> Hp]
    /\ UNCHANGED <<objs, msg>>

\* bf_message_to_bytes(&out, objs[msg.to], msg)
Send ==
    /\ msg # NoMsg
    /\ \E out \in {bf_message_to_bytes(objs[msg.to].p, msg.m)} :
           last' = [op |-> "bf_message_to_bytes", bytes |-> out,
                    output_size |-> Len(out)]
    /\ UNCHANGED <<objs, live, nid, msg>>

\* bf_message_from_bytes(in, objs[j], &m) on the bytes sent, with extra added
\* to their length field
Receive(j, extra) ==
    /\ last.op = "bf_message_to_bytes"
    /\ Count("V") < MaxMsgs + MaxCalls
    /\ LET in == [last.bytes EXCEPT ![1] = NumByte(msg.m.length + extra)]
       IN  \E res \in {bf_message_from_bytes(in, objs[j].p, NoMessage, Hp)} :
             /\ live' = res.hp.live
             /\ nid' = res.hp.nid
             /\ last' = [op |-> "bf_message_from_bytes", at |-> j, extra |-> extra,
                         in |-> in, ret |-> res.ok, message |-> res.message,
                         pre |-> Hp]
    /\ UNCHANGED <<objs, msg>>

\* decrypt_ibe(objs[j], key of msg.id under objs[j], in, len, &n) on the bytes
\* sent, with extra added to their length field
ReceiveIbe(j, extra) ==
    /\ last.op = "bf_message_to_bytes"
    /\ Count("plain") < MaxCalls
    /\ Valid(objs[j])
    /\ LET in == [last.bytes EXCEPT ![1] = NumByte(msg.m.length + extra)]
           key == parse_private_key(objs[j].p,
                      generate_private_key(objs[j].p, objs[j].ms, msg.id))
       IN  \E res \in {decrypt_ibe(objs[j].p, key, in, -1, Hp)} :
             /\ live' = res.hp.live
             /\ nid' = res.hp.nid
             /\ last' = [op |-> "decrypt_ibe", at |-> j, extra |-> extra, in |-> in,
                         id |-> msg.id, ret |-> res.ok, bytes |-> res.bytes,
                         out_length |-> res.out_length, retval |-> res.retval,
                         pre |-> Hp]
    /\ UNCHANGED <<objs, msg>>

\* parse_system_params(format_system_params(objs[i])), and the text of the result
ParseFormatted(i) ==
    /\ Len(objs) < MaxParams
    /\ msg = NoMsg
    /\ Valid(objs[i])
    /\ \E str \in {format_system_params(objs[i].p, Hp)} :
         \E res \in {parse_system_params(str.text, str.hp)} :
           /\ objs' = Append(objs, Entry(res.params, NoMpz, objs[i].ms, "parsed", <<i>>))
           /\ live' = res.hp.live
           /\ nid' = res.hp.nid
           /\ last' = [op |-> "parse_system_params", a |-> i, ret |-> Len(objs) + 1,
                       text |-> str.text, again |-> bf_params_to_file(res.params),
                       pre |-> Hp]
    /\ UNCHANGED msg

NextCodec ==
    \/ \E i \in 1..Len(objs), id \in Ids, len \in 1..MaxLen, rand_ok \in BOOLEAN :
         Encrypt(i, id, len, rand_ok)
    \/ \E i \in 1..Len(objs), len \in 1..MaxLen, rand_ok \in BOOLEAN, crash \in BOOLEAN :
         EncryptIbe(i, "alice", len, rand_ok, crash)
    \/ Send
    \/ \E j \in 1..Len(objs), extra \in 0..1 : Receive(j, extra)
    \/ \E j \in 1..Len(objs), extra \in 0..1 : ReceiveIbe(j, extra)
    \/ \E i \in 1..Len(objs) : ParseFormatted(i)

SpecCodec == InitCodec /\ [][NextCodec]_vars

\* the decoding just done was under the sender's record or a parsed copy of it
Decoded == last.op = "bf_message_from_bytes"
SameParams ==
    \/ last.at = msg.to
    \/ objs[last.at].kind = "parsed" /\ objs[last.at].from = <<msg.to>>

\* C11: bf_message_from_bytes on what bf_message_to_bytes wrote, under the
\* same params, succeeds with the length, U, V and W of the message encoded,
\* and the bytes written are sizeof(length) + 1 + |U| + hashlen + length.
C11_MessageRoundTrip ==
    (Decoded /\ last.extra = 0 /\ SameParams) =>
        /\ last.ret
        /\ last.message.length = msg.m.length
        /\ last.message.U.v = msg.m.U.v
        /\ last.message.V.v = msg.m.V.v
        /\ last.message.W.v = msg.m.W.v
        /\ Len(last.in) = 1 + 1 + Len(element_to_bytes_G1(msg.m.U.v))
                            + objs[msg.to].p.security.hashlen + msg.m.length

C11_Witness ==
    /\ Decoded /\ last.extra = 0 /\ last.at = msg.to /\ last.ret
    /\ msg.m.length = MaxLen /\ msg.m.length > HLen

\* C12: decoding bytes whose level byte is not the level of the receiver's
\* params fails with no U, V or W initialised or allocated; decrypt_ibe then
\* returns NULL.
C12_LevelMismatchRejected ==
    ((Decoded \/ (last.op = "decrypt_ibe" /\ "at" \in DOMAIN last))
     /\ ByteNum(last.in[2]) # objs[last.at].p.security.level)
        => /\ ~last.ret
           /\ live = last.pre.live
           /\ Decoded => /\ last.message.U.id = 0
                         /\ last.message.V.id = 0
                         /\ last.message.W.id = 0

C12_Witness ==
    /\ Decoded /\ ~last.ret
    /\ ByteNum(last.in[2]) # objs[last.at].p.security.level
    /\ last.message.U = NoG1

\* C13: parsing the text of a record made by setup gives a record with the
\* same level, P, P_pub, q and curve, and its text is the text parsed.
C13_ParamsTextRoundTrip ==
    (last.op = "parse_system_params" /\ objs[last.a].kind = "system") =>
        LET A == objs[last.a].p
            B == objs[last.ret].p
        IN  /\ B.security = A.security
            /\ B.P.v = A.P.v
            /\ B.P_pub.v = A.P_pub.v
            /\ B.q.v = A.q.v
            /\ B.pbc_par.v = A.pbc_par.v /\ B.pairing.v = A.pairing.v
            /\ last.again = last.text

C13_Witness ==
    /\ last.op = "parse_system_params" /\ objs[last.a].kind = "system"
    /\ objs[last.a].p.q.v > MPZ_OUTPUT_BASE
    /\ objs[last.ret].p.q.v = objs[last.a].p.q.v
    /\ Len(last.text.P_pub) > 3

\* some byte of W was read past the end of the bytes supplied
ReadBeyond(message) ==
    \E i \in 1..Len(message.W.v) : \E a \in message.W.v[i] : a[1] = "oob"

\* C14: for bytes whose length field claims more plaintext than they carry,
\* decoding reads no byte past their end and decrypting them is rejected
\* (NULL, or bf_decrypt's check fails).
C14_ShortBufferRejected ==
    ((Decoded \/ (last.op = "decrypt_ibe" /\ "at" \in DOMAIN last))
     /\ last.extra > 0)
        => /\ Decoded => ~ReadBeyond(last.message)
           /\ ~Decoded => (~last.ret \/ ~last.retval)

\* C16: when RAND_bytes fails, bf_encrypt returns NULL with nothing left
\* allocated, and encrypt_ibe returns NULL without a fault.
C16_RandomFailureReported ==
    /\ (last.op = "bf_encrypt" /\ ~last.ret) => live = last.pre.live
    /\ (last.op = "encrypt_ibe" /\ ~last.rand_ok)
           => (~last.ret /\ ~last.fault /\ live = last.pre.live)

(************************* hash_to_bytes alone *******************************)
MaxOut == 5

\* a system, a seed, an output length and the caller's buffer, one byte longer
InitHash ==
    \E level \in 1..5, outlen \in 1..MaxOut, k \in 1..2, zeroed \in BOOLEAN :
      \E res \in {generate_system(level, NumCurves, <<1>>, 0, [live |-> {}, nid |-> 0])} :
        /\ objs = <<Entry(res.system, res.secret, res.secret.v, "system", <<>>)>>
        /\ live = res.hp.live
        /\ nid = res.hp.nid
        /\ msg = NoMsg
        /\ last = [op |-> "buffer", outlen |-> outlen,
                   seed |-> RAND_bytes(k, res.system.security.hashlen),
                   buf0 |-> IF zeroed THEN Zeros(outlen + 1) ELSE Junk(outlen + 1)]

\* hash_to_bytes(buf, objs[1], outlen, seed, hlen)
HashToBytes ==
    /\ last.op = "buffer"
    /\ \E res \in {hash_to_bytes(last.buf0, objs[1].p, last.outlen, last.seed)} :
         last' = [op |-> "hash_to_bytes", outlen |-> last.outlen, seed |-> last.seed,
                  buf0 |-> last.buf0, result |-> res]
    /\ UNCHANGED <<objs, live, nid, msg>>

NextHash == HashToBytes

SpecHash == InitHash /\ [][NextHash]_vars

\* the mask stream as specified: h_0 = 0, h_j = H(h_(j-1)), r_j = H(h_j || K)
\* with K = H(seed); byte i (from 0) is byte i mod hlen of r_(i div hlen + 1)
RECURSIVE HashChain(_, _)
HashChain(security, j) ==
    IF j = 0 THEN Zeros(security.hashlen)
    ELSE hashfcn(security, HashChain(security, j - 1))
MaskBlock(security, seed, j) ==
    hashfcn(security, HashChain(security, j) \o hashfcn(security, seed))
MaskStream(security, seed, n) ==
    [i \in 1..n |-> MaskBlock(security, seed, ((i - 1) \div security.hashlen) + 1)
                        [((i - 1) % security.hashlen) + 1]]

\* C17: hash_to_bytes writes bytes 0..outlen-1 of the mask stream at their
\* positions, the last partial block after the earlier ones, and nothing else.
C17_BlockByBlock ==
    last.op = "hash_to_bytes" =>
        /\ SubSeq(last.result, 1, last.outlen)
             = MaskStream(objs[1].p.security, last.seed, last.outlen)
        /\ last.result[last.outlen + 1] = last.buf0[last.outlen + 1]

\* C18: in a message of bf_encrypt every byte of W is the plaintext byte
\* XOR the byte of the mask stream of rho at its index.
C18_EveryByteMasked ==
    msg # NoMsg =>
        \A i \in 1..msg.m.length :
            msg.m.W.v[i] = XorByte(msg.plain[i],
                               MaskStream(objs[msg.to].p.security, msg.rho,
                                          msg.m.length)[i])

\* C19: every live P_pub and every live precomputation is the one some record
\* holds, and a record's precomputation is that of its P_pub.
C19_OneInstance ==
    /\ {e[1] : e \in {x \in live : x[2] = "P_pub"}}
           \subseteq {objs[i].p.P_pub.id : i \in 1..Len(objs)}
    /\ {e[1] : e \in {x \in live : x[2] = "precomp"}}
           \subseteq {objs[i].p.P_pub_precomp.id : i \in 1..Len(objs)}
    /\ \A i \in 1..Len(objs) :
           Valid(objs[i]) => objs[i].p.P_pub_precomp.v = objs[i].p.P_pub.v

(********************** a ciphertext altered in transit **********************)
\* the byte put in place of old: old with bits flipped, or the zero byte
Replaced(old, how) ==
    IF how = "flip" THEN XorByte(old, {<<"flip", 0, <<>>, 0>>}) ELSE {}

\* one byte of V (hlen bytes) or of W (length bytes) of the message in flight
\* is replaced by another value, once
Tamper(part, i, how) ==
    /\ msg # NoMsg
    /\ "tampered" \notin DOMAIN msg
    /\ last.op = "bf_encrypt"
    /\ i \in 1..(IF part = "V" THEN Len(msg.m.V.v) ELSE msg.m.length)
    /\ msg' = [to |-> msg.to, id |-> msg.id, plain |-> msg.plain, rho |-> msg.rho,
               m |-> IF part = "V"
                     THEN [msg.m EXCEPT !.V.v[i] = Replaced(@, how)]
                     ELSE [msg.m EXCEPT !.W.v[i] = Replaced(@, how)],
               tampered |-> <<part, i>>]
    /\ UNCHANGED <<objs, live, nid, last>>

\* bf_decrypt twice on the same params, key and message, once into a zeroed
\* buffer and once into one left as allocated
DecryptTwice(id) ==
    /\ msg # NoMsg
    /\ last.op = "bf_encrypt"
    /\ LET key == KeyOf(msg.to, id)
       IN  \E r0 \in {bf_decrypt(Zeros(msg.m.length), objs[msg.to].p, key, msg.m)},
              r1 \in {bf_decrypt(Junk(msg.m.length), objs[msg.to].p, key, msg.m)} :
             last' = [op |-> "bf_decrypt twice", id |-> id, run |-> <<r0, r1>>]
    /\ UNCHANGED <<objs, live, nid, msg>>

NextTamper ==
    \/ \E id \in Ids, len \in 1..MaxLen, rand_ok \in BOOLEAN : Encrypt(1, id, len, rand_ok)
    \/ \E part \in {"V", "W"}, i \in 1..(MaxLen + Units(SHA512_DIGEST_LENGTH)),
          how \in {"flip", "zero"} : Tamper(part, i, how)
    \/ \E id \in Ids, zeroed \in BOOLEAN : Decrypt(id, zeroed)
    \/ \E id \in Ids : DecryptTwice(id)

SpecTamper == InitIBE /\ [][NextTamper]_vars

Tampered == msg # NoMsg /\ "tampered" \in DOMAIN msg

C20_BufferIndependent ==
    last.op = "bf_decrypt twice" =>
        /\ last.run[1].retval = last.run[2].retval
        /\ SubSeq(last.run[1].output, 1, msg.m.length)
             = SubSeq(last.run[2].output, 1, msg.m.length)

====
